---- MODULE Spec2Model ----
(***************************************************************************)
(* engine.py: the three epoch loops train_one_epoch,                       *)
(* train_one_epoch_distillation and evaluate, as one sequential state      *)
(* machine.  A driver calls the functions one after the other; each call   *)
(* walks its data source batch by batch.  A call that ends in sys.exit or  *)
(* in an exception ends the run.                                           *)
(*                                                                         *)
(* Numbers.  A Python/torch float is a record [kind, v]: kind is "fin",    *)
(* "nan", "pinf" or "ninf"; for a finite value v counts halves (v = 3 is   *)
(* 1.5), so that the default alpha = 0.5 is a value.  The inputs are       *)
(* chosen so that every product of finite values is exact.                 *)
(***************************************************************************)
EXTENDS Integers, Sequences, FiniteSets

VARIABLES
    fn,             \* the function called last: "none", "train", "distill", "eval"
    pc,             \* the position inside that function; "exited" and "raised" end the run
    nbatches,       \* len(data_loader) of the current call
    k,              \* number of batches the data source has yielded so far
    cur,            \* the batch being processed
    alpha,          \* train_one_epoch_distillation's alpha
    temp,           \* train_one_epoch_distillation's temp
    loss_ce,        \* local loss_ce
    kl_div,         \* what kl_loss(...) returned
    loss_kd,        \* local loss_kd
    loss,           \* local loss
    loss_value,     \* local loss_value
    acc,            \* locals acc1, acc5 of evaluate
    training,       \* module.training of the model (student) and of the teacher
    grad_enabled,   \* torch.is_grad_enabled()
    fwd,            \* the forward passes of the current batch, each with the module's mode and the grad mode
    grads,          \* backward passes accumulated in the parameters' .grad
    grad_of,        \* index of the batch whose loss was backpropagated last
    nsteps,         \* optimizer steps taken in this call
    meters,         \* metric_logger.meters
    total_correct,
    total_samples,
    accuracy,       \* local accuracy of the training functions
    outcome,        \* how the call ended: "none", "returned", "exit", "ZeroDivisionError", "error"
    exit_status,    \* the argument of sys.exit
    stats,          \* the returned dictionary
    trace,          \* the steps taken for the current batch, in order
    processed,      \* indices of the batches whose loop body has finished
    hits,           \* what accuracy() found in the outputs of evaluate's current batch
    seen,           \* samples, top-1 hits, top-5 hits and losses of the batches in processed, summed
    snap            \* the training state at the end of the last finished batch

vars == << fn, pc, nbatches, k, cur, alpha, temp, loss_ce, kl_div, loss_kd, loss, loss_value, acc,
           training, grad_enabled, fwd, grads, grad_of, nsteps, meters, total_correct, total_samples,
           accuracy, outcome, exit_status, stats, trace, processed, hits, seen, snap >>

----------------------------------------------------------------------------
(* Bounds *)

MaxBatches == 2

----------------------------------------------------------------------------
(* Floats *)

Fin(v) == [kind |-> "fin", v |-> v]
NaN == [kind |-> "nan", v |-> 0]
PInf == [kind |-> "pinf", v |-> 0]
NInf == [kind |-> "ninf", v |-> 0]

\* float(n) of an integer n
FromInt(n) == Fin(2 * n)

\* a check that catches NaN only (loss_value != loss_value)
IsFiniteNanOnly(x) == x.kind # "nan"

\* math.isfinite
IsFinite(x) == x.kind = "fin"

FSign(x) ==
    CASE x.kind = "pinf" -> 1
      [] x.kind = "ninf" -> -1
      [] x.kind = "fin" -> (IF x.v > 0 THEN 1 ELSE IF x.v < 0 THEN -1 ELSE 0)
      [] OTHER -> 0

FNeg(x) ==
    CASE x.kind = "pinf" -> NInf
      [] x.kind = "ninf" -> PInf
      [] x.kind = "fin" -> Fin(0 - x.v)
      [] OTHER -> NaN

\* x + y: inf + (-inf) is nan
FAdd(x, y) ==
    IF x.kind = "nan" \/ y.kind = "nan" THEN NaN
    ELSE IF x.kind = "fin" /\ y.kind = "fin" THEN Fin(x.v + y.v)
    ELSE IF x.kind = "fin" THEN y
    ELSE IF y.kind = "fin" THEN x
    ELSE IF x.kind = y.kind THEN x
    ELSE NaN

FSub(x, y) == FAdd(x, FNeg(y))

\* x * y: 0 * inf is nan
FMul(x, y) ==
    IF x.kind = "nan" \/ y.kind = "nan" THEN NaN
    ELSE IF x.kind = "fin" /\ y.kind = "fin" THEN Fin((x.v * y.v) \div 2)
    ELSE IF FSign(x) * FSign(y) = 0 THEN NaN
    ELSE IF FSign(x) * FSign(y) > 0 THEN PInf
    ELSE NInf

----------------------------------------------------------------------------
(* Inputs *)

\* what criterion(outputs, targets) can be
CriterionValues == {Fin(0), Fin(2), NaN, PInf, NInf}

\* what KLDivLoss(reduction="batchmean") can be
KLValues == {Fin(0), Fin(2), NaN, PInf}

\* alpha: 0, 0.5 (the default), 1, and 1.5 (nothing restricts it to [0, 1])
Alphas == {Fin(0), Fin(1), Fin(2), Fin(3)}

\* temp: 1 and 2 (the default)
Temps == {Fin(2), Fin(4)}

\* targets.size(0); sizes that divide 100, so that a batch's accuracy in percent is exact
BatchSizes == {1, 2}

\* A batch: n samples with their targets
Batches == [n : BatchSizes]

\* What the library can find in the outputs for a batch of n samples: top1 of
\* them predicted right, top5 of them with the target among the five best.
Hits(n) == { h \in [top1 : 0..n, top5 : 0..n] : h.top1 <= h.top5 }

NoBatch == [n |-> 0]

----------------------------------------------------------------------------
(* utils.MetricLogger and utils.SmoothedValue *)

\* SmoothedValue(): total and count; global_avg is total / count
NewMeter == [total |-> Fin(0), count |-> 0]

\* MetricLogger(): no meter yet
NoMeters == [name \in {} |-> NewMeter]

\* SmoothedValue.update(value, n): total += value * n; count += n
SmoothedValueUpdate(m, value, n) ==
    [total |-> FAdd(m.total, FMul(value, FromInt(n))), count |-> m.count + n]

\* meters[name].update(value, n) on the defaultdict of meters
MeterUpdate(ms, name, value, n) ==
    [x \in DOMAIN ms \cup {name} |->
        IF x = name
        THEN SmoothedValueUpdate(IF name \in DOMAIN ms THEN ms[name] ELSE NewMeter, value, n)
        ELSE ms[x]]

\* MetricLogger.update(name=value): the meter's update with its default n = 1
MetricLoggerUpdate(ms, name, value) == MeterUpdate(ms, name, value, 1)

\* timm.utils.accuracy for one k: the hits of the batch in percent
Accuracy(correct, n) == Fin((2 * 100 * correct) \div n)

----------------------------------------------------------------------------
(* State *)

Training == {"train", "distill"}

\* what a batch with a non-finite loss must leave alone
TrainState ==
    [meters |-> meters, total_correct |-> total_correct, total_samples |-> total_samples,
     nsteps |-> nsteps, grads |-> grads, grad_of |-> grad_of]

NoSeen == [n |-> 0, top1 |-> 0, top5 |-> 0, loss |-> Fin(0)]

NoHits == [top1 |-> 0, top5 |-> 0]

Init ==
    /\ fn = "none"
    /\ pc = "idle"
    /\ nbatches = 0
    /\ k = 0
    /\ cur = NoBatch
    /\ alpha = Fin(1)
    /\ temp = Fin(4)
    /\ loss_ce = Fin(0)
    /\ kl_div = Fin(0)
    /\ loss_kd = Fin(0)
    /\ loss = Fin(0)
    /\ loss_value = Fin(0)
    /\ acc = [acc1 |-> Fin(0), acc5 |-> Fin(0)]
    /\ training = [model |-> TRUE, teacher |-> TRUE]
    /\ grad_enabled = TRUE
    /\ fwd = {}
    /\ grads = 0
    /\ grad_of = 0
    /\ nsteps = 0
    /\ meters = NoMeters
    /\ total_correct = 0
    /\ total_samples = 0
    /\ accuracy = 0
    /\ outcome = "none"
    /\ exit_status = 0
    /\ stats = NoMeters
    /\ trace = << >>
    /\ processed = << >>
    /\ seen = NoSeen
    /\ hits = NoHits
    /\ snap = [meters |-> NoMeters, total_correct |-> 0, total_samples |-> 0,
               nsteps |-> 0, grads |-> 0, grad_of |-> 0]

----------------------------------------------------------------------------
(* Entering a function *)

\* The locals of a call as they stand before the loop: a fresh MetricLogger,
\* zeroed counters, the data source not yet iterated.
Enter(f, nb) ==
    /\ pc \in {"idle", "returned"}
    /\ fn' = f
    /\ pc' = "loop"
    /\ nbatches' = nb
    /\ k' = 0
    /\ cur' = NoBatch
    /\ loss_ce' = Fin(0)
    /\ kl_div' = Fin(0)
    /\ loss_kd' = Fin(0)
    /\ loss' = Fin(0)
    /\ loss_value' = Fin(0)
    /\ acc' = [acc1 |-> Fin(0), acc5 |-> Fin(0)]
    /\ fwd' = {}
    /\ grad_of' = 0
    /\ nsteps' = 0
    /\ meters' = NoMeters
    /\ total_correct' = 0
    /\ total_samples' = 0
    /\ accuracy' = 0
    /\ outcome' = "none"
    /\ exit_status' = 0
    /\ stats' = NoMeters
    /\ trace' = << >>
    /\ processed' = << >>
    /\ seen' = NoSeen
    /\ hits' = NoHits
    /\ snap' = [meters |-> NoMeters, total_correct |-> 0, total_samples |-> 0,
                nsteps |-> 0, grads |-> grads, grad_of |-> 0]
    /\ UNCHANGED grads

\* model.train()
ModelTrain(t) == [t EXCEPT !.model = TRUE]

\* teacher.eval(); student.train()
TeacherEvalStudentTrain(t) == [t EXCEPT !.teacher = FALSE, !.model = TRUE]

\* evaluate without its model.eval()
ModelEvalOmitted(t) == t

\* model.eval()
ModelEval(t) == [t EXCEPT !.model = FALSE]

\* alpha and temp are no parameters of train_one_epoch and evaluate: they
\* stay at the defaults of line 58 there
CallTrain ==
    \E nb \in 0..MaxBatches :
        /\ Enter("train", nb)
        /\ training' = ModelTrain(training)
        /\ alpha' = Fin(1)
        /\ temp' = Fin(4)
        /\ UNCHANGED grad_enabled

CallDistill ==
    \E nb \in 0..MaxBatches, a \in Alphas, t \in Temps :
        /\ Enter("distill", nb)
        /\ training' = TeacherEvalStudentTrain(training)
        /\ alpha' = a
        /\ temp' = t
        /\ UNCHANGED grad_enabled

\* @torch.no_grad() wraps the whole call
CallEval ==
    \E nb \in 0..MaxBatches :
        /\ Enter("eval", nb)
        /\ training' = ModelEval(training)
        /\ grad_enabled' = FALSE
        /\ alpha' = Fin(1)
        /\ temp' = Fin(4)

----------------------------------------------------------------------------
(* The loop head *)

\* a data source that drops every other batch
NextIndexSkips(i) == i + 2

\* the index of the batch the data source yields after having yielded i
NextIndex(i) == i + 1

\* the for statement takes the next batch
Fetch ==
    /\ pc = "loop"
    /\ k < nbatches
    /\ \E b \in Batches : cur' = b
    /\ k' = NextIndex(k)
    /\ pc' = "forward"
    /\ trace' = << >>
    /\ fwd' = {}
    /\ UNCHANGED << fn, nbatches, alpha, temp, loss_ce, kl_div, loss_kd, loss, loss_value, acc,
                    training, grad_enabled, grads, grad_of, nsteps, meters, total_correct,
                    total_samples, accuracy, outcome, exit_status, stats, processed, hits,
                    seen, snap >>

\* the data source is exhausted
EndLoop ==
    /\ pc = "loop"
    /\ k >= nbatches
    /\ pc' = IF fn \in Training THEN "accuracy" ELSE "print"
    /\ UNCHANGED << fn, nbatches, k, cur, alpha, temp, loss_ce, kl_div, loss_kd, loss,
                    loss_value, acc, training, grad_enabled, fwd, grads, grad_of, nsteps,
                    meters, total_correct, total_samples, accuracy, outcome, exit_status,
                    stats, trace, processed, hits, seen, snap >>

----------------------------------------------------------------------------
(* The loop body of the training functions *)

\* one forward pass, as the module's mode and the grad mode stand
Pass(module, grad) == [module |-> module, training |-> training[module], grad |-> grad]

\* outputs = model(samples)
TrainForward ==
    /\ fn = "train"
    /\ pc = "forward"
    /\ fwd' = {Pass("model", grad_enabled)}
    /\ trace' = Append(trace, "forward")
    /\ pc' = "loss"
    /\ UNCHANGED << fn, nbatches, k, cur, alpha, temp, loss_ce, kl_div, loss_kd, loss,
                    loss_value, acc, training, grad_enabled, grads, grad_of, nsteps, meters,
                    total_correct, total_samples, accuracy, outcome, exit_status, stats,
                    processed, hits, seen, snap >>

\* outputs = student(samples); with torch.no_grad(): outputs_teacher = teacher(samples)
DistillForward ==
    /\ fn = "distill"
    /\ pc = "forward"
    /\ fwd' = {Pass("model", grad_enabled), Pass("teacher", FALSE)}
    /\ trace' = Append(trace, "forward")
    /\ pc' = "loss"
    /\ UNCHANGED << fn, nbatches, k, cur, alpha, temp, loss_ce, kl_div, loss_kd, loss,
                    loss_value, acc, training, grad_enabled, grads, grad_of, nsteps, meters,
                    total_correct, total_samples, accuracy, outcome, exit_status, stats,
                    processed, hits, seen, snap >>

\* loss = criterion(outputs, targets)
TrainLoss ==
    /\ fn = "train"
    /\ pc = "loss"
    /\ \E ce \in CriterionValues : loss' = ce
    /\ trace' = Append(trace, "loss")
    /\ pc' = "item"
    /\ UNCHANGED << fn, nbatches, k, cur, alpha, temp, loss_ce, kl_div, loss_kd, loss_value,
                    acc, training, grad_enabled, fwd, grads, grad_of, nsteps, meters,
                    total_correct, total_samples, accuracy, outcome, exit_status, stats,
                    processed, hits, seen, snap >>

\* loss_kd = kl_loss(...) * (temp * temp)
KDLoss(kl, t) == FMul(kl, FMul(t, t))

\* the distillation term at full weight: alpha * loss_ce + loss_kd
OneMinusDropped(a) == Fin(2)

\* 1.0 - alpha
OneMinus(a) == FSub(Fin(2), a)

\* loss = alpha * loss_ce + (1.0 - alpha) * loss_kd
CombinedLoss(a, ce, kd) == FAdd(FMul(a, ce), FMul(OneMinus(a), kd))

DistillLoss ==
    /\ fn = "distill"
    /\ pc = "loss"
    /\ \E ce \in CriterionValues, kl \in KLValues :
        /\ loss_ce' = ce
        /\ kl_div' = kl
        /\ loss_kd' = KDLoss(kl, temp)
        /\ loss' = CombinedLoss(alpha, ce, KDLoss(kl, temp))
    /\ trace' = Append(trace, "loss")
    /\ pc' = "item"
    /\ UNCHANGED << fn, nbatches, k, cur, alpha, temp, loss_value, acc, training, grad_enabled,
                    fwd, grads, grad_of, nsteps, meters, total_correct, total_samples,
                    accuracy, outcome, exit_status, stats, processed, hits, seen, snap >>

\* the loss meter updated before the finiteness check
ItemUpdatesMeter ==
    /\ fn \in Training
    /\ pc = "item"
    /\ loss_value' = loss
    /\ meters' = MetricLoggerUpdate(meters, "loss", loss)
    /\ trace' = Append(trace, "item")
    /\ pc' = "check"
    /\ UNCHANGED << fn, nbatches, k, cur, alpha, temp, loss_ce, kl_div, loss_kd, loss, acc,
                    training, grad_enabled, fwd, grads, grad_of, nsteps, total_correct,
                    total_samples, accuracy, outcome, exit_status, stats, processed, hits,
                    seen, snap >>

\* loss_value = loss.item()
Item ==
    /\ fn \in Training
    /\ pc = "item"
    /\ loss_value' = loss
    /\ trace' = Append(trace, "item")
    /\ pc' = "check"
    /\ UNCHANGED << fn, nbatches, k, cur, alpha, temp, loss_ce, kl_div, loss_kd, loss, acc,
                    training, grad_enabled, fwd, grads, grad_of, nsteps, meters, total_correct,
                    total_samples, accuracy, outcome, exit_status, stats, processed, hits,
                    seen, snap >>

\* if not math.isfinite(loss_value): sys.exit(1)
CheckFinite ==
    /\ fn \in Training
    /\ pc = "check"
    /\ trace' = Append(trace, "check")
    /\ IF IsFinite(loss_value)
       THEN /\ pc' = "zero_grad"
            /\ UNCHANGED << outcome, exit_status >>
       ELSE /\ pc' = "exited"
            /\ outcome' = "exit"
            /\ exit_status' = 1
    /\ UNCHANGED << fn, nbatches, k, cur, alpha, temp, loss_ce, kl_div, loss_kd, loss,
                    loss_value, acc, training, grad_enabled, fwd, grads, grad_of, nsteps,
                    meters, total_correct, total_samples, accuracy, stats, processed, hits,
                    seen, snap >>

\* a loop body without optimizer.zero_grad(): gradients pile up
ZeroGradOmitted ==
    /\ fn \in Training
    /\ pc = "zero_grad"
    /\ trace' = Append(trace, "zero_grad")
    /\ pc' = "backward"
    /\ UNCHANGED << fn, nbatches, k, cur, alpha, temp, loss_ce, kl_div, loss_kd, loss,
                    loss_value, acc, training, grad_enabled, fwd, grads, grad_of, nsteps,
                    meters, total_correct, total_samples, accuracy, outcome, exit_status,
                    stats, processed, hits, seen, snap >>

\* optimizer.zero_grad()
ZeroGrad ==
    /\ fn \in Training
    /\ pc = "zero_grad"
    /\ grads' = 0
    /\ trace' = Append(trace, "zero_grad")
    /\ pc' = "backward"
    /\ UNCHANGED << fn, nbatches, k, cur, alpha, temp, loss_ce, kl_div, loss_kd, loss,
                    loss_value, acc, training, grad_enabled, fwd, grad_of, nsteps, meters,
                    total_correct, total_samples, accuracy, outcome, exit_status, stats,
                    processed, hits, seen, snap >>

\* loss.backward(): adds the loss's gradient to what .grad holds
Backward ==
    /\ fn \in Training
    /\ pc = "backward"
    /\ grads' = grads + 1
    /\ grad_of' = k
    /\ trace' = Append(trace, "backward")
    /\ pc' = "step"
    /\ UNCHANGED << fn, nbatches, k, cur, alpha, temp, loss_ce, kl_div, loss_kd, loss,
                    loss_value, acc, training, grad_enabled, fwd, nsteps, meters,
                    total_correct, total_samples, accuracy, outcome, exit_status, stats,
                    processed, hits, seen, snap >>

\* optimizer.step()
OptimizerStep ==
    /\ fn \in Training
    /\ pc = "step"
    /\ nsteps' = nsteps + 1
    /\ trace' = Append(trace, "step")
    /\ pc' = "update"
    /\ UNCHANGED << fn, nbatches, k, cur, alpha, temp, loss_ce, kl_div, loss_kd, loss,
                    loss_value, acc, training, grad_enabled, fwd, grads, grad_of, meters,
                    total_correct, total_samples, accuracy, outcome, exit_status, stats,
                    processed, hits, seen, snap >>

\* metric_logger.update(loss=loss_value)
UpdateLoss ==
    /\ fn \in Training
    /\ pc = "update"
    /\ meters' = MetricLoggerUpdate(meters, "loss", loss_value)
    /\ trace' = Append(trace, "update")
    /\ pc' = "count"
    /\ UNCHANGED << fn, nbatches, k, cur, alpha, temp, loss_ce, kl_div, loss_kd, loss,
                    loss_value, acc, training, grad_enabled, fwd, grads, grad_of, nsteps,
                    total_correct, total_samples, accuracy, outcome, exit_status, stats,
                    processed, hits, seen, snap >>

\* total_correct += predicted.eq(targets).sum().item()
AddCorrect(total, correct) == total + correct

\* total_samples counting batches instead of samples
AddSamplesOne(total, b) == total + 1

\* total_samples += targets.size(0)
AddSamples(total, b) == total + b.n

\* the two counters, which end the loop body
CountCorrect ==
    /\ fn \in Training
    /\ pc = "count"
    /\ \E h \in Hits(cur.n) :
        /\ total_correct' = AddCorrect(total_correct, h.top1)
        /\ seen' = [seen EXCEPT !.n = @ + cur.n, !.top1 = @ + h.top1, !.loss = FAdd(@, loss_value)]
    /\ total_samples' = AddSamples(total_samples, cur)
    /\ trace' = Append(trace, "count")
    /\ processed' = Append(processed, k)
    /\ snap' = [TrainState EXCEPT !.total_correct = total_correct', !.total_samples = total_samples']
    /\ pc' = "loop"
    /\ UNCHANGED << fn, nbatches, k, cur, alpha, temp, loss_ce, kl_div, loss_kd, loss,
                    loss_value, acc, training, grad_enabled, fwd, grads, grad_of, nsteps,
                    meters, accuracy, outcome, exit_status, stats, hits >>

----------------------------------------------------------------------------
(* After the loop of the training functions *)

\* an accuracy that is 0 when no sample was seen
TrainAccuracyGuarded ==
    /\ fn \in Training
    /\ pc = "accuracy"
    /\ pc' = "return"
    /\ accuracy' = IF total_samples = 0 THEN 0 ELSE (100 * total_correct) \div total_samples
    /\ UNCHANGED << fn, nbatches, k, cur, alpha, temp, loss_ce, kl_div, loss_kd, loss,
                    loss_value, acc, training, grad_enabled, fwd, grads, grad_of, nsteps,
                    meters, total_correct, total_samples, outcome, exit_status, stats, trace,
                    processed, hits, seen, snap >>

\* accuracy = 100.0 * total_correct / total_samples
TrainAccuracy ==
    /\ fn \in Training
    /\ pc = "accuracy"
    /\ IF total_samples = 0
       THEN /\ pc' = "raised"
            /\ outcome' = "ZeroDivisionError"
            /\ UNCHANGED accuracy
       ELSE /\ pc' = "return"
            /\ accuracy' = (100 * total_correct) \div total_samples
            /\ UNCHANGED outcome
    /\ UNCHANGED << fn, nbatches, k, cur, alpha, temp, loss_ce, kl_div, loss_kd, loss,
                    loss_value, acc, training, grad_enabled, fwd, grads, grad_of, nsteps,
                    meters, total_correct, total_samples, exit_status, stats, trace, processed,
                    hits, seen, snap >>

\* return {k: meter.global_avg for k, meter in metric_logger.meters.items()}
TrainReturn ==
    /\ fn \in Training
    /\ pc = "return"
    /\ stats' = meters
    /\ outcome' = "returned"
    /\ pc' = "returned"
    /\ UNCHANGED << fn, nbatches, k, cur, alpha, temp, loss_ce, kl_div, loss_kd, loss,
                    loss_value, acc, training, grad_enabled, fwd, grads, grad_of, nsteps,
                    meters, total_correct, total_samples, accuracy, exit_status, trace,
                    processed, hits, seen, snap >>

----------------------------------------------------------------------------
(* evaluate *)

\* output = model(images)
EvalForward ==
    /\ fn = "eval"
    /\ pc = "forward"
    /\ fwd' = {Pass("model", grad_enabled)}
    /\ trace' = Append(trace, "forward")
    /\ pc' = "loss"
    /\ UNCHANGED << fn, nbatches, k, cur, alpha, temp, loss_ce, kl_div, loss_kd, loss,
                    loss_value, acc, training, grad_enabled, grads, grad_of, nsteps, meters,
                    total_correct, total_samples, accuracy, outcome, exit_status, stats,
                    processed, hits, seen, snap >>

\* loss = criterion(output, target)
EvalLoss ==
    /\ fn = "eval"
    /\ pc = "loss"
    /\ \E ce \in CriterionValues : loss' = ce
    /\ trace' = Append(trace, "loss")
    /\ pc' = "topk"
    /\ UNCHANGED << fn, nbatches, k, cur, alpha, temp, loss_ce, kl_div, loss_kd, loss_value,
                    acc, training, grad_enabled, fwd, grads, grad_of, nsteps, meters,
                    total_correct, total_samples, accuracy, outcome, exit_status, stats,
                    processed, hits, seen, snap >>

\* acc1, acc5 = accuracy(output, target, topk=(1, 5))
EvalAccuracy ==
    /\ fn = "eval"
    /\ pc = "topk"
    /\ \E h \in Hits(cur.n) :
        /\ acc' = [acc1 |-> Accuracy(h.top1, cur.n), acc5 |-> Accuracy(h.top5, cur.n)]
        /\ hits' = h
    /\ trace' = Append(trace, "accuracy")
    /\ pc' = "update"
    /\ UNCHANGED << fn, nbatches, k, cur, alpha, temp, loss_ce, kl_div, loss_kd, loss,
                    loss_value, training, grad_enabled, fwd, grads, grad_of, nsteps, meters,
                    total_correct, total_samples, accuracy, outcome, exit_status, stats,
                    processed, seen, snap >>

\* evaluate with the training loops' exit on a non-finite loss
EvalUpdateLossChecked ==
    /\ fn = "eval"
    /\ pc = "update"
    /\ trace' = Append(trace, "update")
    /\ IF IsFinite(loss)
       THEN /\ meters' = MetricLoggerUpdate(meters, "loss", loss)
            /\ pc' = "acc1"
            /\ UNCHANGED << outcome, exit_status >>
       ELSE /\ pc' = "exited"
            /\ outcome' = "exit"
            /\ exit_status' = 1
            /\ UNCHANGED meters
    /\ UNCHANGED << fn, nbatches, k, cur, alpha, temp, loss_ce, kl_div, loss_kd, loss,
                    loss_value, acc, training, grad_enabled, fwd, grads, grad_of, nsteps,
                    total_correct, total_samples, accuracy, stats, processed, hits, seen,
                    snap >>

\* metric_logger.update(loss=loss.item())
EvalUpdateLoss ==
    /\ fn = "eval"
    /\ pc = "update"
    /\ meters' = MetricLoggerUpdate(meters, "loss", loss)
    /\ trace' = Append(trace, "update")
    /\ pc' = "acc1"
    /\ UNCHANGED << fn, nbatches, k, cur, alpha, temp, loss_ce, kl_div, loss_kd, loss,
                    loss_value, acc, training, grad_enabled, fwd, grads, grad_of, nsteps,
                    total_correct, total_samples, accuracy, outcome, exit_status, stats,
                    processed, hits, seen, snap >>

\* acc1 updated like the loss, without n=batch_size
EvalUpdateAcc1Unweighted ==
    /\ fn = "eval"
    /\ pc = "acc1"
    /\ meters' = MetricLoggerUpdate(meters, "acc1", acc.acc1)
    /\ trace' = Append(trace, "acc1")
    /\ pc' = "acc5"
    /\ UNCHANGED << fn, nbatches, k, cur, alpha, temp, loss_ce, kl_div, loss_kd, loss,
                    loss_value, acc, training, grad_enabled, fwd, grads, grad_of, nsteps,
                    total_correct, total_samples, accuracy, outcome, exit_status, stats,
                    processed, hits, seen, snap >>

\* metric_logger.meters['acc1'].update(acc1.item(), n=batch_size)
EvalUpdateAcc1 ==
    /\ fn = "eval"
    /\ pc = "acc1"
    /\ meters' = MeterUpdate(meters, "acc1", acc.acc1, cur.n)
    /\ trace' = Append(trace, "acc1")
    /\ pc' = "acc5"
    /\ UNCHANGED << fn, nbatches, k, cur, alpha, temp, loss_ce, kl_div, loss_kd, loss,
                    loss_value, acc, training, grad_enabled, fwd, grads, grad_of, nsteps,
                    total_correct, total_samples, accuracy, outcome, exit_status, stats,
                    processed, hits, seen, snap >>

\* metric_logger.meters['acc5'].update(acc5.item(), n=batch_size)
EvalUpdateAcc5 ==
    /\ fn = "eval"
    /\ pc = "acc5"
    /\ meters' = MeterUpdate(meters, "acc5", acc.acc5, cur.n)
    /\ trace' = Append(trace, "acc5")
    /\ processed' = Append(processed, k)
    /\ seen' = [n |-> seen.n + cur.n, top1 |-> seen.top1 + hits.top1,
                top5 |-> seen.top5 + hits.top5, loss |-> FAdd(seen.loss, loss)]
    /\ pc' = "loop"
    /\ UNCHANGED << fn, nbatches, k, cur, alpha, temp, loss_ce, kl_div, loss_kd, loss,
                    loss_value, acc, training, grad_enabled, fwd, grads, grad_of, nsteps,
                    total_correct, total_samples, accuracy, outcome, exit_status, stats, hits,
                    snap >>

\* print('* Acc@1 {top1.global_avg:.3f} ...'.format(top1=metric_logger.acc1, ...)): with
\* no batch there is no meter to format, and what MetricLogger then does is not
\* this file's to say: the call goes on or raises.
EvalPrint ==
    /\ fn = "eval"
    /\ pc = "print"
    /\ \/ /\ pc' = "return"
          /\ UNCHANGED << outcome, grad_enabled >>
       \/ /\ DOMAIN meters = {}
          /\ pc' = "raised"
          /\ outcome' = "error"
          /\ grad_enabled' = TRUE
    /\ UNCHANGED << fn, nbatches, k, cur, alpha, temp, loss_ce, kl_div, loss_kd, loss,
                    loss_value, acc, training, fwd, grads, grad_of, nsteps, meters,
                    total_correct, total_samples, accuracy, exit_status, stats, trace,
                    processed, hits, seen, snap >>

\* return {k: meter.global_avg ...}; leaving the function ends its no_grad
EvalReturn ==
    /\ fn = "eval"
    /\ pc = "return"
    /\ stats' = meters
    /\ outcome' = "returned"
    /\ grad_enabled' = TRUE
    /\ pc' = "returned"
    /\ UNCHANGED << fn, nbatches, k, cur, alpha, temp, loss_ce, kl_div, loss_kd, loss,
                    loss_value, acc, training, fwd, grads, grad_of, nsteps, meters,
                    total_correct, total_samples, accuracy, exit_status, trace, processed,
                    hits, seen, snap >>

----------------------------------------------------------------------------

Next ==
    \/ CallTrain
    \/ CallDistill
    \/ CallEval
    \/ Fetch
    \/ EndLoop
    \/ TrainForward
    \/ DistillForward
    \/ TrainLoss
    \/ DistillLoss
    \/ Item
    \/ CheckFinite
    \/ ZeroGrad
    \/ Backward
    \/ OptimizerStep
    \/ UpdateLoss
    \/ CountCorrect
    \/ TrainAccuracy
    \/ TrainReturn
    \/ EvalForward
    \/ EvalLoss
    \/ EvalAccuracy
    \/ EvalUpdateLoss
    \/ EvalUpdateAcc1
    \/ EvalUpdateAcc5
    \/ EvalPrint
    \/ EvalReturn

Spec == Init /\ [][Next]_vars

----------------------------------------------------------------------------
(* Properties *)

\* the positions of the training loop body, in the order of the code; each
\* step adds its own name to trace
Order == << "forward", "loss", "item", "check", "zero_grad", "backward", "step", "update", "count" >>

InBody == pc \in {"forward", "loss", "item", "check", "zero_grad", "backward", "step", "update",
                  "count", "topk", "acc1", "acc5"}

Ended == pc \in {"returned", "exited", "raised"}

\* NaN, +inf or -inf
NonFinite(x) == x.kind \in {"nan", "pinf", "ninf"}

\* a step of a run, seen from the exit on a non-finite loss
C1_Step ==
    /\ pc # "exited"
    /\ (fn' \in Training /\ NonFinite(loss_value')) =>
          /\ pc' \in {"check", "exited"}
          /\ outcome' \in {"none", "exit"}
          /\ stats' = NoMeters
    /\ (fn \in Training /\ pc = "check" /\ NonFinite(loss_value)) =>
          /\ pc' = "exited"
          /\ outcome' = "exit"
          /\ exit_status' = 1
          /\ k' = k
          /\ processed' = processed

\* C1: in both training functions a batch whose loss value is not finite (NaN,
\* +inf, -inf) ends the run with exit status 1 as its very next step: no
\* further batch is taken, nothing is returned, and nothing runs after the exit.
C1_AbortOnNonFiniteLoss == [][C1_Step]_vars

C1_Witness ==
    /\ fn = "distill"
    /\ pc = "exited"
    /\ exit_status = 1
    /\ loss_value = PInf
    /\ k < nbatches

\* C2: the batch with the non-finite loss leaves the training state alone: at
\* the abort the meters, the counters, the optimizer's steps and the gradients
\* are those at the end of the last batch with a finite loss, and the batch
\* went through forward, loss and check only.
C2_AbortLeavesStateUnchanged ==
    pc = "exited" =>
        /\ TrainState = snap
        /\ trace = << "forward", "loss", "item", "check" >>
        /\ Len(processed) = k - 1
        /\ nsteps = Len(processed)
        /\ total_samples = seen.n

C2_Witness ==
    /\ fn = "train"
    /\ pc = "exited"
    /\ loss_value = NaN
    /\ Len(processed) = 1
    /\ nsteps = 1
    /\ total_samples = 2

\* C3: in both training functions a batch with a finite loss takes the steps
\* forward, loss, finiteness check, zero_grad, backward, step, update of the
\* loss meter, counters, in this order and each once; backward finds the
\* gradients zeroed, and a step follows the backward of its own batch.
C3_FixedStepOrder ==
    fn \in Training =>
        /\ \A i \in 1..Len(Order) : pc = Order[i] => trace = SubSeq(Order, 1, i - 1)
        /\ (pc = "loop" /\ k > 0) => trace = Order
        /\ pc \in {"step", "update", "count"} => (grads = 1 /\ grad_of = k)
        /\ pc = "backward" => grads = 0
        /\ pc \in {"update", "count"} => nsteps = Len(processed) + 1
        /\ pc \in {"forward", "loss", "item", "check", "zero_grad", "backward", "step"} =>
              nsteps = Len(processed)

C3_Witness ==
    /\ fn = "distill"
    /\ pc = "loop"
    /\ k = 2
    /\ trace = Order
    /\ nsteps = 2

\* how far a call has come: grows with every step of the call
PcRank ==
    CASE pc = "forward" -> 1
      [] pc = "loss" -> 2
      [] pc \in {"item", "topk"} -> 3
      [] pc = "check" -> 4
      [] pc = "zero_grad" -> 5
      [] pc = "backward" -> 6
      [] pc = "step" -> 7
      [] pc = "update" -> 8
      [] pc \in {"count", "acc1"} -> 9
      [] pc = "acc5" -> 10
      [] OTHER -> 0

Measure ==
    IF InBody THEN 11 * k + PcRank
    ELSE IF pc = "loop" THEN 11 * k + 11
    ELSE IF pc \in {"accuracy", "print"} THEN 11 * nbatches + 12
    ELSE IF pc = "return" THEN 11 * nbatches + 13
    ELSE 11 * nbatches + 14

C4_Inv ==
    /\ processed = [i \in 1..Len(processed) |-> i]
    /\ Len(processed) = (IF InBody \/ pc = "exited" THEN k - 1 ELSE k)
    /\ k <= nbatches
    /\ pc = "exited" => (fn \in Training /\ NonFinite(loss_value))
    /\ pc = "raised" => nbatches = 0
    /\ (pc # "idle" /\ ~Ended) => ENABLED Next
    /\ (outcome = "returned" /\ nbatches >= 1) =>
          /\ pc = "returned"
          /\ Len(processed) = nbatches
          /\ stats = meters
          /\ fn \in Training => nsteps = nbatches

C4_Step ==
    (pc # "idle" /\ ~Ended) => (Measure' > Measure /\ Measure' <= 11 * nbatches + 14)

\* C4: each loop is sequential over its data source: the batches are taken one
\* at a time in the order 1, 2, ..., a batch starts only when the one before it
\* has finished all its steps, every step of a call is followed by a next one
\* until the call ends, and a call over N >= 1 batches that returns has
\* processed each batch once (with N optimizer steps in training) and returns
\* the meters' statistics; it ends otherwise only by the exit on a non-finite loss.
C4_SequentialLoop == []C4_Inv /\ [][C4_Step]_vars

C4_Witness ==
    /\ fn = "eval"
    /\ pc = "returned"
    /\ nbatches = 2
    /\ processed = << 1, 2 >>

\* C5: the distillation loss is alpha * loss_ce + (1 - alpha) * loss_kd with
\* loss_kd = KL * temp^2, the weights sum to 1, alpha = 1 gives loss_ce when
\* loss_kd is finite and alpha = 0 gives loss_kd when loss_ce is finite; with
\* weight 0 on a non-finite term the loss is NaN.
C5_ConvexCombination ==
    fn = "distill" =>
        /\ FAdd(alpha, OneMinus(alpha)) = Fin(2)
        /\ ~NonFinite(kl_div) =>
              (~NonFinite(loss_kd) /\ 4 * loss_kd.v = kl_div.v * temp.v * temp.v)
        /\ NonFinite(kl_div) => loss_kd = kl_div
        /\ (~NonFinite(loss_ce) /\ ~NonFinite(loss_kd)) =>
              /\ ~NonFinite(loss)
              /\ 2 * loss.v = alpha.v * loss_ce.v + (2 - alpha.v) * loss_kd.v
        /\ (alpha = Fin(2) /\ ~NonFinite(loss_kd)) => loss = loss_ce
        /\ (alpha = Fin(0) /\ ~NonFinite(loss_ce)) => loss = loss_kd
        /\ (alpha = Fin(2) /\ NonFinite(loss_kd)) => loss = NaN
        /\ (alpha = Fin(0) /\ NonFinite(loss_ce)) => loss = NaN

C5_Witness ==
    /\ fn = "distill"
    /\ pc = "count"
    /\ alpha = Fin(2)
    /\ temp = Fin(4)
    /\ loss_ce = Fin(2)
    /\ loss_kd = Fin(8)
    /\ loss = Fin(2)

\* C5 as stated: alpha = 1 gives exactly loss_ce and alpha = 0 exactly loss_kd,
\* whatever the other term is.
C5_AsStated ==
    fn = "distill" =>
        /\ FAdd(alpha, OneMinus(alpha)) = Fin(2)
        /\ ~NonFinite(kl_div) =>
              (~NonFinite(loss_kd) /\ 4 * loss_kd.v = kl_div.v * temp.v * temp.v)
        /\ (~NonFinite(loss_ce) /\ ~NonFinite(loss_kd)) =>
              /\ ~NonFinite(loss)
              /\ 2 * loss.v = alpha.v * loss_ce.v + (2 - alpha.v) * loss_kd.v
        /\ alpha = Fin(2) => loss = loss_ce
        /\ alpha = Fin(0) => loss = loss_kd

C6_Inv ==
    fn \in Training =>
        /\ 0 <= total_correct
        /\ total_correct <= total_samples
        /\ total_samples = seen.n
        /\ total_correct = seen.top1
        /\ pc \in {"return", "returned"} => (total_samples >= 1 /\ accuracy \in 0..100)

C6_Step ==
    (fn \in Training /\ pc \notin {"idle", "returned"}) =>
        (total_correct' >= total_correct /\ total_samples' >= total_samples)

\* C6: in both training functions 0 <= total_correct <= total_samples, total_samples
\* is the sum of the sizes of the batches processed, neither counter decreases
\* during a call, and the accuracy reported lies in [0, 100].
C6_AccuracyCounters == []C6_Inv /\ [][C6_Step]_vars

C6_Witness ==
    /\ fn = "train"
    /\ pc = "returned"
    /\ total_samples = 3
    /\ total_correct = 2
    /\ accuracy = 66

C8_EvaluateNoTrainingNoAbort ==
    fn = "eval" =>
        /\ nsteps = 0
        /\ grads = snap.grads
        /\ grad_of = 0
        /\ pc # "exited"
        /\ outcome # "exit"
        /\ exit_status = 0
        /\ \A i \in 1..Len(trace) : trace[i] \notin {"zero_grad", "backward", "step"}
        /\ pc \in {"acc1", "acc5"} => trace = << "forward", "loss", "accuracy", "update" >>
                                          \o (IF pc = "acc5" THEN << "acc1" >> ELSE << >>)
        /\ (pc = "returned" /\ nbatches >= 1) => Len(processed) = nbatches

C8_Witness ==
    /\ fn = "eval"
    /\ pc = "returned"
    /\ nbatches = 2
    /\ Len(processed) = 2
    /\ stats["loss"] = [total |-> PInf, count |-> 2]
    /\ grads = 1

\* C9: over a data source without batches the training functions take no
\* optimizer step and return nothing: the accuracy's division raises
\* ZeroDivisionError with total_samples = 0.
C9_EmptySourceDividesByZero ==
    (fn \in Training /\ nbatches = 0) =>
        /\ pc \in {"loop", "accuracy", "raised"}
        /\ outcome \in {"none", "ZeroDivisionError"}
        /\ pc = "raised" <=> outcome = "ZeroDivisionError"
        /\ stats = NoMeters
        /\ nsteps = 0
        /\ total_samples = 0

C9_Witness ==
    /\ fn = "distill"
    /\ nbatches = 0
    /\ pc = "raised"
    /\ outcome = "ZeroDivisionError"

\* C10: whatever was called before, during train_one_epoch the model is in train
\* mode; during train_one_epoch_distillation the student is in train mode and
\* the teacher in eval mode, its forward pass without grad; during evaluate and
\* after it the model is in eval mode.
C10_ModelModes ==
    /\ fn = "train" =>
          /\ training["model"]
          /\ \A p \in fwd : p.module = "model" /\ p.training
    /\ fn = "distill" =>
          /\ training["model"]
          /\ ~training["teacher"]
          /\ \A p \in fwd : IF p.module = "teacher" THEN ~p.training /\ ~p.grad
                                                    ELSE p.training /\ p.grad
    /\ fn = "eval" =>
          /\ ~training["model"]
          /\ \A p \in fwd : p.module = "model" /\ ~p.training
    /\ (fn # "none" /\ pc \in {"loss", "item", "check", "topk", "update", "count"}) =>
          Cardinality(fwd) = (IF fn = "distill" THEN 2 ELSE 1)

C10_Witness ==
    /\ fn = "eval"
    /\ pc = "returned"
    /\ nbatches = 2
    /\ ~training["model"]
    /\ ~training["teacher"]

TypeOK ==
    /\ fn \in {"none", "train", "distill", "eval"}
    /\ k \in 0..nbatches
    /\ nbatches \in 0..MaxBatches
    /\ grads \in 0..1
    /\ pc \in {"idle", "loop", "accuracy", "print", "return"} \cup InBody \cup {"returned", "exited", "raised"}

====
